---------------------------- MODULE Spec2Model ----------------------------
(***************************************************************************)
(* The OHLCV S3 price API of src/main.py: the range query get_price        *)
(* (parameter parsing, range resolution, the day x prefix x page x object  *)
(* retrieval loop with its shared file budget, and assembly), the symbol   *)
(* normalisation and the listing prefixes it uses, and the direct fetch    *)
(* get_by_key.                                                             *)
(*                                                                         *)
(* Strings are sequences of one-character strings.  Instants are integer   *)
(* ticks counted from datetime.min (0001-01-01T00:00), TicksPerDay ticks   *)
(* to a calendar day; a date is the day index  instant \div TicksPerDay.   *)
(***************************************************************************)
EXTENDS Integers, Sequences, FiniteSets, TLC

VARIABLES
    pc,                \* position of the request inside its handler
    params,            \* path parameter of get_price
    keyArg,            \* query parameter key of get_by_key
    exchange,          \* query parameter exchange
    max_files,         \* query parameter max_files
    now,               \* datetime.utcnow() as read at line 50
    sym,               \* parts[0]
    timeframe,         \* parts[1]
    rng,               \* parts[2]
    symbol_partition,  \* normalize_symbol_for_bucket(sym, exchange)
    renormalized,      \* a second application of the normalisation
    start,             \* start of the resolved range (NoInstant: not resolved)
    sessionCreated,    \* get_session / sess.client have been called
    dayIdx,            \* index of the current day in date_iter (0-based)
    variant,           \* index of the current prefix template (1 or 2)
    pageIdx,           \* index of the current page of the current listing
    pageLeft,          \* objects of the current page not yet iterated
    hasMore,           \* the current listing has a further page
    files_read,        \* the shared counter of successful reads
    rows,              \* the decoded tables, in the order they were read
    lastReq,           \* the store request made by the last step, if any
    storeReply,        \* how the store answered it: "ok", "error", "NoSuchKey"
    lastKey,           \* the key of that request when it is a get_object
    prefix,            \* the prefix formatted at line 83 for the current listing
    prefixLog,         \* the prefixes whose listing was started, in order
    listed,            \* a list_objects_v2 page has been requested
    nGet,              \* get_object requests issued
    nFail,             \* fetched objects that failed to decode
    nParquet,          \* keys ending in .parquet seen in the listings so far
    keysLeft,          \* objects the store may still list (bounds the store)
    outcome,           \* how the request ended ("none": still running)
    result             \* the response body of a successful request

vars == <<pc, params, keyArg, exchange, max_files, now, sym, timeframe, rng,
          symbol_partition, renormalized, start, sessionCreated, dayIdx,
          variant, pageIdx, pageLeft, hasMore, files_read, rows, lastReq, storeReply,
          lastKey, prefix, prefixLog, listed, nGet, nFail, nParquet, keysLeft, outcome, result>>

-----------------------------------------------------------------------------
(* Bounds of the model *)

TicksPerDay == 2       \* instants distinguished inside one calendar day
NowDay == 739924       \* day index of the request (2026-11-05)
MaxPrefixLen == 4      \* characters of a range token before its last one
MaxSymLen == 4         \* characters of a symbol
MaxKeys == 5           \* objects the store lists during one query
MaxPages == 2          \* pages of one listing
MaxTableRows == 1      \* rows of a table fetched by its key
MaxDaysBack == 400     \* days before the request whose prefixes are built
MaxLiveKeys == 2       \* objects the store lists in the termination check
MaxTables == 2         \* decoded tables handed to the assembly check

(* Limits of Python's datetime and timedelta *)
MaxDayIdx == 3652058           \* date.max (9999-12-31) as a day index
MaxDeltaDays == 999999999      \* largest |days| of a timedelta

NoInstant == 0 - 1
NoString == <<"?">>

-----------------------------------------------------------------------------
(* Python's str operations on sequences of characters *)

LowerLetters == <<"a","b","c","d","e","f","g","h","i","j","k","l","m",
                  "n","o","p","q","r","s","t","u","v","w","x","y","z">>
UpperLetters == <<"A","B","C","D","E","F","G","H","I","J","K","L","M",
                  "N","O","P","Q","R","S","T","U","V","W","X","Y","Z">>
Digits == <<"0","1","2","3","4","5","6","7","8","9">>

IsSpace(c) == c = " "

UpperChar(c) ==
    IF \E i \in 1..26 : LowerLetters[i] = c
    THEN UpperLetters[CHOOSE i \in 1..26 : LowerLetters[i] = c]
    ELSE c

LowerChar(c) ==
    IF \E i \in 1..26 : UpperLetters[i] = c
    THEN LowerLetters[CHOOSE i \in 1..26 : UpperLetters[i] = c]
    ELSE c

Upper(s) == [i \in 1..Len(s) |-> UpperChar(s[i])]
Lower(s) == [i \in 1..Len(s) |-> LowerChar(s[i])]

\* str.strip(): the string without its leading and trailing whitespace
Strip(s) ==
    LET nonsp == {i \in 1..Len(s) : ~IsSpace(s[i])}
    IN  IF nonsp = {} THEN <<>>
        ELSE LET lo == CHOOSE i \in nonsp : \A j \in nonsp : i <= j
                 hi == CHOOSE i \in nonsp : \A j \in nonsp : j <= i
             IN  SubSeq(s, lo, hi)

StartsWith(s, p) == Len(p) <= Len(s) /\ SubSeq(s, 1, Len(p)) = p
EndsWith(s, p) == Len(p) <= Len(s) /\ SubSeq(s, Len(s) - Len(p) + 1, Len(s)) = p

\* str.split(","): the parts between the commas (always at least one part)
RECURSIVE Split(_)
Split(s) ==
    LET commas == {i \in 1..Len(s) : s[i] = ","}
    IN  IF commas = {} THEN <<s>>
        ELSE LET c == CHOOSE i \in commas : \A j \in commas : i <= j
             IN  <<SubSeq(s, 1, c - 1)>> \o Split(SubSeq(s, c + 1, Len(s)))

Join3(a, b, c) == a \o <<",">> \o b \o <<",">> \o c

IsDigit(c) == \E i \in 1..10 : Digits[i] = c
DigitVal(c) == (CHOOSE i \in 1..10 : Digits[i] = c) - 1

\* value of a string of digits and underscores, the underscores ignored
DigitsValue(s) ==
    LET F[i \in 0..Len(s)] ==
            IF i = 0 THEN 0
            ELSE IF IsDigit(s[i]) THEN 10 * F[i-1] + DigitVal(s[i])
                 ELSE F[i-1]
    IN  F[Len(s)]

\* int(s) of Python: surrounding whitespace is ignored, one sign is allowed,
\* single underscores may separate digits; anything else raises ValueError.
PyInt(s) ==
    LET t == Strip(s)
        signed == Len(t) > 0 /\ t[1] \in {"+", "-"}
        body == IF signed THEN Tail(t) ELSE t
        wellFormed ==
            /\ Len(body) > 0
            /\ \A i \in 1..Len(body) : IsDigit(body[i]) \/ body[i] = "_"
            /\ body[1] # "_"
            /\ body[Len(body)] # "_"
            /\ \A i \in 1..(Len(body) - 1) : ~(body[i] = "_" /\ body[i+1] = "_")
        mag == DigitsValue(body)
    IN  IF wellFormed
        THEN [ok |-> TRUE, val |-> IF signed /\ t[1] = "-" THEN 0 - mag ELSE mag]
        ELSE [ok |-> FALSE, val |-> 0]

-----------------------------------------------------------------------------
(* normalize_symbol_for_bucket, lines 25-31 *)

normalize_symbol_for_bucket(s0, exch) ==
    LET s == Upper(Strip(s0))
        pre == exch \o <<"_">>
    IN  IF StartsWith(s, pre) THEN s
        ELSE pre \o (IF EndsWith(s, <<"-","E","Q">>) THEN s ELSE s \o <<"-","E","Q">>)

-----------------------------------------------------------------------------
(* Range resolution, lines 50-63 and 73 *)

Date(t) == t \div TicksPerDay
MaxInstant == (MaxDayIdx + 1) * TicksPerDay - 1
Abs(n) == IF n < 0 THEN 0 - n ELSE n

\* days per unit, lines 56-61; 0 stands for the else branch of line 62
UnitDays(unit) ==
    IF unit = "d" THEN 1
    ELSE IF unit = "m" THEN 30
    ELSE IF unit = "y" THEN 365
    ELSE 0

\* Lines 51-63 on the range token r at instant t.  err is "none" when a
\* start was computed, else the error raised: the two HTTP 400 errors, the
\* IndexError of rng[-1] on an empty token, the OverflowError of timedelta
\* and of datetime subtraction.
ResolveRange(r, t) ==
    IF Len(r) = 0 THEN [err |-> "IndexError", start |-> NoInstant]
    ELSE
    LET unit == LowerChar(r[Len(r)])
        p == PyInt(SubSeq(r, 1, Len(r) - 1))
        days == p.val * UnitDays(unit)
        s == t - days * TicksPerDay
    IN  IF ~p.ok THEN [err |-> "MalformedRange", start |-> NoInstant]
        ELSE IF UnitDays(unit) = 0
            THEN [err |-> "UnknownRangeUnit", start |-> NoInstant]
        ELSE IF Abs(days) > MaxDeltaDays \/ s < 0 \/ s > MaxInstant
            THEN [err |-> "OverflowError", start |-> NoInstant]
        ELSE [err |-> "none", start |-> s]

\* a day generator that steps two days at a time
DateAtSkipping(s, i) == Date(s) + 2 * i

\* date_iter, line 73: a generator of DateCount days, the i-th (from 0) being
\* start.date() + i; range() of a non-positive number is empty.
DateCount(s, t) ==
    IF Date(t) - Date(s) + 1 > 0 THEN Date(t) - Date(s) + 1 ELSE 0
DateAt(s, i) == Date(s) + i

-----------------------------------------------------------------------------
(* Outcomes of a request *)

BadRequest == {"MalformedQuery", "MalformedRange", "UnknownRangeUnit"}   \* 400
NotFound == {"NoDataFound", "ObjectNotFound"}                                              \* 404
\* exceptions no handler catches: the framework answers 500
Unhandled == {"IndexError", "OverflowError", "TypeError", "StoreError", "DecodeError"}
NoResult == [rows_returned |-> 0 - 1, data |-> <<>>]

-----------------------------------------------------------------------------
(* get_price, lines 43-63: split the parameters, normalise the symbol,      *)
(* resolve the range.  openFirst tells whether the store session is opened *)
(* before the parameters are looked at (it is not: lines 65-68 come after). *)

inputVars == <<params, keyArg, exchange, max_files, now>>
loopVars == <<dayIdx, variant, pageIdx, pageLeft, hasMore>>
storeVars == <<lastReq, storeReply, lastKey, prefix, prefixLog, listed, nGet, nFail, nParquet, keysLeft>>

ParseParamsWith(openFirst) ==
    /\ pc = "request"
    /\ sessionCreated' = openFirst
    /\ \E raw \in {Split(params)} :
       \E parts \in {[i \in 1..Len(raw) |-> Strip(raw[i])]} :
           IF Len(parts) # 3
           THEN /\ outcome' = "MalformedQuery"
                /\ pc' = "done"
                /\ UNCHANGED <<sym, timeframe, rng, symbol_partition, start>>
           ELSE \E res \in {ResolveRange(parts[3], now)} :
                    /\ sym' = parts[1]
                    /\ timeframe' = parts[2]
                    /\ rng' = parts[3]
                    /\ symbol_partition' = normalize_symbol_for_bucket(parts[1], exchange)
                    /\ start' = res.start
                    /\ outcome' = res.err
                    /\ pc' = IF res.err = "none" THEN "session" ELSE "done"
    /\ UNCHANGED <<inputVars, renormalized, loopVars, files_read, rows,
                   storeVars, result>>

ParseParamsSessionFirst == ParseParamsWith(TRUE)

ParseParams == ParseParamsWith(FALSE)

\* lines 65-79: session, client, empty accumulators, the day generator
OpenSession ==
    /\ pc = "session"
    /\ sessionCreated' = TRUE
    /\ rows' = <<>>
    /\ files_read' = 0
    /\ dayIdx' = 0
    /\ variant' = 1
    /\ pageIdx' = 0
    /\ pc' = "list"
    /\ UNCHANGED <<inputVars, sym, timeframe, rng, symbol_partition,
                   renormalized, start, pageLeft, hasMore, storeVars,
                   outcome, result>>

-----------------------------------------------------------------------------
(* The listing prefixes, lines 74-83 *)

\* date.year, date.month, date.day of the day with index n (0 is 0001-01-01),
\* by the proleptic Gregorian rules: 400-, 100-, 4- and 1-year cycles
DaysBeforeMonth(m, leap) ==
    <<0, 31, 59, 90, 120, 151, 181, 212, 243, 273, 304, 334, 365>>[m]
        + (IF leap /\ m > 2 THEN 1 ELSE 0)

YearMonthDay(n) ==
    LET n400 == n \div 146097
        r1 == n % 146097
        n100 == r1 \div 36524
        r2 == r1 % 36524
        n4 == r2 \div 1461
        r3 == r2 % 1461
        n1 == r3 \div 365
        r4 == r3 % 365
        y == 400 * n400 + 100 * n100 + 4 * n4 + n1 + 1
        leap == n1 = 3 /\ (n4 # 24 \/ n100 = 3)
        mo == CHOOSE m \in 1..12 :
                  DaysBeforeMonth(m, leap) <= r4 /\ r4 < DaysBeforeMonth(m + 1, leap)
    IN  IF n1 = 4 \/ n100 = 4
        THEN [year |-> y - 1, month |-> 12, day |-> 31]
        ELSE [year |-> y, month |-> mo, day |-> r4 - DaysBeforeMonth(mo, leap) + 1]

\* str(n) for n >= 0
RECURSIVE IntStr(_)
IntStr(n) ==
    IF n < 10 THEN <<Digits[n + 1]>>
    ELSE IntStr(n \div 10) \o <<Digits[(n % 10) + 1]>>

\* format(n, "0<w>d") for n >= 0: zeros on the left up to w characters
RECURSIVE ZeroFill(_, _)
ZeroFill(s, w) == IF Len(s) >= w THEN s ELSE ZeroFill(<<"0">> \o s, w)

\* a template is a sequence of literal texts and replacement fields
Lit(s) == [k |-> "lit", s |-> s, name |-> "", width |-> 0]
Field(n, w) == [k |-> "field", s |-> <<>>, name |-> n, width |-> w]

\* lines 74-79
prefixes_to_try_template == <<
    <<
       Lit(<<"p","r","o","c","e","s","s","e","d","/","t","i","m","e","f","r","a","m","e","=">>),
       Field("timeframe", 0),
       Lit(<<"/","e","x","c","h","a","n","g","e","=">>),
       Field("exchange", 0),
       Lit(<<"/","s","y","m","b","o","l","=">>),
       Field("symbol", 0),
       Lit(<<"/","y","e","a","r","=">>),
       Field("Y", 0),
       Lit(<<"/","m","o","n","t","h","=">>),
       Field("m", 2),
       Lit(<<"/","d","a","y","=">>),
       Field("d", 2),
       Lit(<<"/">>) >>,
    <<
       Lit(<<"p","r","o","c","e","s","s","e","d","/","t","i","m","e","f","r","a","m","e","%","3","D">>),
       Field("timeframe", 0),
       Lit(<<"/","e","x","c","h","a","n","g","e","%","3","D">>),
       Field("exchange", 0),
       Lit(<<"/","s","y","m","b","o","l","%","3","D">>),
       Field("symbol", 0),
       Lit(<<"/","y","e","a","r","%","3","D">>),
       Field("Y", 0),
       Lit(<<"/","m","o","n","t","h","%","3","D">>),
       Field("m", 2),
       Lit(<<"/","d","a","y","%","3","D">>),
       Field("d", 2),
       Lit(<<"/">>) >> >>

\* str.format: the literal texts as they are, each field replaced by its
\* value, the values themselves never interpreted
RECURSIVE FormatFrom(_, _, _)
FormatFrom(t, vals, i) ==
    IF i > Len(t) THEN <<>>
    ELSE (IF t[i].k = "lit" THEN t[i].s
          ELSE IF t[i].name \in {"Y", "m", "d"}
               THEN ZeroFill(IntStr(vals[t[i].name]), t[i].width)
               ELSE vals[t[i].name])
         \o FormatFrom(t, vals, i + 1)

\* every prefix built from the first template
FormatPrefixUnencoded(v, tf, ex, sy, n) ==
    LET ymd == YearMonthDay(n)
    IN  FormatFrom(prefixes_to_try_template[1],
                   [timeframe |-> tf, exchange |-> ex, symbol |-> sy,
                    Y |-> ymd.year, m |-> ymd.month, d |-> ymd.day], 1)

\* line 83: the prefix of template v for the day with index n
FormatPrefix(v, tf, ex, sy, n) ==
    LET ymd == YearMonthDay(n)
    IN  FormatFrom(prefixes_to_try_template[v],
                   [timeframe |-> tf, exchange |-> ex, symbol |-> sy,
                    Y |-> ymd.year, m |-> ymd.month, d |-> ymd.day], 1)

-----------------------------------------------------------------------------
(* The object store and the decoder, as the query sees them *)

\* keys a listing may hold
KeyChoices ==
    { <<"a",".","p","a","r","q","u","e","t">>,
      <<"a",".","P","A","R","Q","U","E","T">>,
      <<"a",".","c","s","v">>,
      <<"p","a","r","q","u","e","t">> }

\* a test of the last seven characters only
IsParquetKeyNoDot(key) == EndsWith(Lower(key), <<"p","a","r","q","u","e","t">>)

\* line 88: key.lower().endswith(".parquet")
IsParquetKey(key) == EndsWith(Lower(key), <<".","p","a","r","q","u","e","t">>)

\* A cell is a timestamp, an unparsable text or an absent value (NaN/NaT).
TsCell(t) == [k |-> "ts", v |-> t]
TextCell == [k |-> "text", v |-> 0]
Absent == [k |-> "absent", v |-> 0]

\* A table (DataFrame): its columns and its rows, each row a function from
\* the columns to cells.  These are the tables the stored objects decode to,
\* given the range [s, t] of the query.
TableChoices(s, t) ==
    { [cols |-> {"timestamp"}, rws |-> << [timestamp |-> TsCell(t)] >>],
      [cols |-> {"timestamp"}, rws |-> << [timestamp |-> TsCell(s - 1)] >>],
      [cols |-> {"close"}, rws |-> << [close |-> TextCell] >>],
      [cols |-> {"close"}, rws |-> << >>] }

\* line 90: the budget test made before each fetch
BudgetExhaustedOffByOne(fr, mf) == fr > mf
BudgetExhausted(fr, mf) == fr >= mf

\* lines 101-102, 103-104, 105-106: the same test repeated after the object
\* loop, the page loop and the prefix loop
NeverBreak(fr, mf) == FALSE
BreakPageLoop(fr, mf) == fr >= mf
\* a prefix loop that stops as soon as one file was read
BreakWhenFound(fr, mf) == fr > 0
BreakPrefixLoop(fr, mf) == fr >= mf
BreakDayLoop(fr, mf) == fr >= mf

\* lines 83-85: the first page request of a prefix starts its listing; the
\* entry keeps the day and the template, done tells whether the page loop
\* has run to the end of the listing
LogListing(log, s, i, v, p) ==
    IF p = 0
    THEN Append(log, [date |-> DateAt(s, i), variant |-> v, done |-> FALSE])
    ELSE log

\* line 85: one page of the listing of the current prefix is requested and
\* arrives with n objects; more tells whether the listing is truncated
ListPage ==
    /\ pc = "list"
    /\ dayIdx < DateCount(start, now)
    /\ \E n \in 0..keysLeft, more \in BOOLEAN :
         /\ more => pageIdx + 1 < MaxPages
         /\ pageLeft' = n
         /\ hasMore' = more
         /\ keysLeft' = keysLeft - n
    /\ lastReq' = "list"
    /\ storeReply' = "ok"
    /\ lastKey' = NoString
    /\ prefix' = IF pageIdx = 0
                 THEN FormatPrefix(variant, timeframe, exchange, symbol_partition,
                                   DateAt(start, dayIdx))
                 ELSE prefix
    /\ prefixLog' = LogListing(prefixLog, start, dayIdx, variant, pageIdx)
    /\ listed' = TRUE
    /\ pc' = "scan"
    /\ UNCHANGED <<inputVars, sym, timeframe, rng, symbol_partition,
                   renormalized, start, sessionCreated, dayIdx, variant,
                   pageIdx, files_read, rows, nGet, nFail, nParquet, outcome,
                   result>>

\* a failed page request that is swallowed: the listing counts as empty
ListPageFailsSkipped ==
    /\ pc = "list"
    /\ dayIdx < DateCount(start, now)
    /\ lastReq' = "list"
    /\ storeReply' = "error"
    /\ lastKey' = NoString
    /\ prefix' = IF pageIdx = 0
                 THEN FormatPrefix(variant, timeframe, exchange, symbol_partition,
                                   DateAt(start, dayIdx))
                 ELSE prefix
    /\ prefixLog' = LogListing(prefixLog, start, dayIdx, variant, pageIdx)
    /\ listed' = TRUE
    /\ pageLeft' = 0
    /\ hasMore' = FALSE
    /\ pc' = "scan"
    /\ UNCHANGED <<inputVars, sym, timeframe, rng, symbol_partition,
                   renormalized, start, sessionCreated, dayIdx, variant,
                   pageIdx, files_read, rows, nGet, nFail, nParquet, keysLeft,
                   outcome, result>>

\* line 85: the page request fails in the store; nothing catches it
ListPageFails ==
    /\ pc = "list"
    /\ dayIdx < DateCount(start, now)
    /\ lastReq' = "list"
    /\ storeReply' = "error"
    /\ lastKey' = NoString
    /\ prefix' = IF pageIdx = 0
                 THEN FormatPrefix(variant, timeframe, exchange, symbol_partition,
                                   DateAt(start, dayIdx))
                 ELSE prefix
    /\ prefixLog' = LogListing(prefixLog, start, dayIdx, variant, pageIdx)
    /\ listed' = TRUE
    /\ outcome' = "StoreError"
    /\ pc' = "done"
    /\ UNCHANGED <<inputVars, sym, timeframe, rng, symbol_partition,
                   renormalized, start, sessionCreated, loopVars, files_read,
                   rows, nGet, nFail, nParquet, keysLeft, result>>

\* a day loop that starts over when its generator is exhausted
LoopEndRestarts ==
    /\ pc = "list"
    /\ dayIdx >= DateCount(start, now)
    /\ lastReq' = "none"
    /\ storeReply' = "none"
    /\ lastKey' = NoString
    /\ dayIdx' = 0
    /\ UNCHANGED <<pc, inputVars, sym, timeframe, rng, symbol_partition,
                   renormalized, start, sessionCreated, variant, pageIdx,
                   pageLeft, hasMore, files_read, rows, prefix, prefixLog,
                   listed, nGet, nFail, nParquet, keysLeft, outcome, result>>

\* line 81: the day generator is exhausted
LoopEnd ==
    /\ pc = "list"
    /\ dayIdx >= DateCount(start, now)
    /\ lastReq' = "none"
    /\ storeReply' = "none"
    /\ lastKey' = NoString
    /\ pc' = "assemble"
    /\ UNCHANGED <<inputVars, sym, timeframe, rng, symbol_partition,
                   renormalized, start, sessionCreated, loopVars, files_read,
                   rows, prefix, prefixLog, listed, nGet, nFail, nParquet, keysLeft, outcome,
                   result>>

\* what a step on one object of the page leaves alone
ObjectStepFrame ==
    UNCHANGED <<inputVars, sym, timeframe, rng, symbol_partition,
                renormalized, start, sessionCreated, dayIdx, variant, pageIdx,
                hasMore, prefix, prefixLog, listed, keysLeft, result>>

\* lines 87-89: a key that does not end in .parquet is passed over
SkipNonParquet ==
    /\ pc = "scan"
    /\ pageLeft > 0
    /\ \E key \in KeyChoices : ~IsParquetKey(key)
    /\ pageLeft' = pageLeft - 1
    /\ lastReq' = "none"
    /\ storeReply' = "none"
    /\ lastKey' = NoString
    /\ UNCHANGED <<pc, files_read, rows, nGet, nFail, nParquet, outcome>>
    /\ ObjectStepFrame

\* lines 90-91: a .parquet key met with the budget used up ends the object loop
BudgetBreak ==
    /\ pc = "scan"
    /\ pageLeft > 0
    /\ \E key \in KeyChoices : IsParquetKey(key)
    /\ BudgetExhausted(files_read, max_files)
    /\ nParquet' = nParquet + 1
    /\ pageLeft' = 0
    /\ lastReq' = "none"
    /\ storeReply' = "none"
    /\ lastKey' = NoString
    /\ UNCHANGED <<pc, files_read, rows, nGet, nFail, outcome>>
    /\ ObjectStepFrame

\* lines 92-97: the object is fetched and decodes to a table
FetchDecoded ==
    /\ pc = "scan"
    /\ pageLeft > 0
    /\ ~BudgetExhausted(files_read, max_files)
    /\ lastReq' = "get"
    /\ storeReply' = "ok"
    /\ \E key \in KeyChoices : IsParquetKey(key) /\ lastKey' = key
    /\ nGet' = nGet + 1
    /\ \E df \in TableChoices(start, now) : rows' = Append(rows, df)
    /\ files_read' = files_read + 1
    /\ nParquet' = nParquet + 1
    /\ pageLeft' = pageLeft - 1
    /\ UNCHANGED <<pc, nFail, outcome>>
    /\ ObjectStepFrame

\* a decode failure that ends the request instead of being skipped
FetchCorruptAborts ==
    /\ pc = "scan"
    /\ pageLeft > 0
    /\ ~BudgetExhausted(files_read, max_files)
    /\ lastReq' = "get"
    /\ storeReply' = "ok"
    /\ \E key \in KeyChoices : IsParquetKey(key) /\ lastKey' = key
    /\ nGet' = nGet + 1
    /\ nFail' = nFail + 1
    /\ nParquet' = nParquet + 1
    /\ outcome' = "DecodeError"
    /\ pc' = "done"
    /\ UNCHANGED <<pageLeft, files_read, rows>>
    /\ ObjectStepFrame

\* lines 92-100: the object is fetched, read_parquet_bytes raises, the
\* handler prints and goes on with the next object
FetchCorrupt ==
    /\ pc = "scan"
    /\ pageLeft > 0
    /\ ~BudgetExhausted(files_read, max_files)
    /\ lastReq' = "get"
    /\ storeReply' = "ok"
    /\ \E key \in KeyChoices : IsParquetKey(key) /\ lastKey' = key
    /\ nGet' = nGet + 1
    /\ nFail' = nFail + 1
    /\ nParquet' = nParquet + 1
    /\ pageLeft' = pageLeft - 1
    /\ UNCHANGED <<pc, files_read, rows, outcome>>
    /\ ObjectStepFrame

\* lines 92-93: get_object or the read of its body fails in the store
FetchFails ==
    /\ pc = "scan"
    /\ pageLeft > 0
    /\ ~BudgetExhausted(files_read, max_files)
    /\ lastReq' = "get"
    /\ storeReply' = "error"
    /\ \E key \in KeyChoices : IsParquetKey(key) /\ lastKey' = key
    /\ nGet' = nGet + 1
    /\ nParquet' = nParquet + 1
    /\ outcome' = "StoreError"
    /\ pc' = "done"
    /\ UNCHANGED <<pageLeft, files_read, rows, nFail>>
    /\ ObjectStepFrame

\* lines 101-106, after the object loop: leave every loop when the budget is
\* used up, else go to the next page, the next prefix or the next day
PageEnd ==
    /\ pc = "scan"
    /\ pageLeft = 0
    /\ LET pageLoopOver == BreakPageLoop(files_read, max_files) \/ ~hasMore
           prefixLoopOver == BreakPrefixLoop(files_read, max_files) \/ variant = 2
       IN  IF ~pageLoopOver
           THEN /\ pageIdx' = pageIdx + 1
                /\ pc' = "list"
                /\ UNCHANGED <<dayIdx, variant>>
           ELSE IF ~prefixLoopOver
           THEN /\ variant' = variant + 1
                /\ pageIdx' = 0
                /\ pc' = "list"
                /\ UNCHANGED dayIdx
           ELSE IF ~BreakDayLoop(files_read, max_files)
           THEN /\ dayIdx' = dayIdx + 1
                /\ variant' = 1
                /\ pageIdx' = 0
                /\ pc' = "list"
           ELSE /\ pc' = "assemble"
                /\ UNCHANGED <<dayIdx, variant, pageIdx>>
    /\ prefixLog' = IF ~BreakPageLoop(files_read, max_files) /\ ~hasMore
                    THEN [prefixLog EXCEPT ![Len(prefixLog)].done = TRUE]
                    ELSE prefixLog
    /\ lastReq' = "none"
    /\ storeReply' = "none"
    /\ lastKey' = NoString
    /\ UNCHANGED <<inputVars, sym, timeframe, rng, symbol_partition,
                   renormalized, start, sessionCreated, pageLeft, hasMore,
                   files_read, rows, prefix, listed, nGet, nFail, nParquet, keysLeft,
                   outcome, result>>

-----------------------------------------------------------------------------
(* Assembly, lines 108-121 *)

TsCandidates == <<"timestamp", "ts", "time", "datetime", "date">>

\* line 108: not rows
NeverEmpty(tables) == FALSE
NoTables(tables) == tables = <<>>

\* line 111: pd.concat(rows, ignore_index=True, sort=False): the columns are
\* the union of the tables' columns, the rows follow in table order, a row
\* has an absent value in each column its table lacks
Concat(tables) ==
    LET allCols == UNION {tables[i].cols : i \in 1..Len(tables)}
        widen(r) == [c \in allCols |-> IF c \in DOMAIN r THEN r[c] ELSE Absent]
        F[i \in 0..Len(tables)] ==
            IF i = 0 THEN <<>>
            ELSE F[i-1] \o [j \in 1..Len(tables[i].rws) |-> widen(tables[i].rws[j])]
    IN  [cols |-> allCols, rws |-> F[Len(tables)]]

\* lines 113-114: the first candidate name that is a column; 0 when none is
CandIndex(cols) ==
    IF \E i \in 1..Len(TsCandidates) : TsCandidates[i] \in cols
    THEN CHOOSE i \in 1..Len(TsCandidates) :
            /\ TsCandidates[i] \in cols
            /\ \A j \in 1..(i - 1) : TsCandidates[j] \notin cols
    ELSE 0

\* line 115: pd.to_datetime(..., errors="coerce"): what does not parse
\* becomes NaT
ToDatetime(cell) == IF cell.k = "ts" THEN cell ELSE Absent

\* line 116: both comparisons; a comparison with NaT is false
InRange(cell, s, t) == cell.k = "ts" /\ s <= cell.v /\ cell.v <= t

\* a filter that keeps every row
FilterRowsKeepAll(big, cand, s, t) == big.rws

FilterRows(big, cand, s, t) ==
    LET coerced == [i \in 1..Len(big.rws) |->
                       [big.rws[i] EXCEPT ![cand] = ToDatetime(@)]]
    IN  SelectSeq(coerced, LAMBDA r : InRange(r[cand], s, t))

AssembleFrame ==
    UNCHANGED <<inputVars, sym, timeframe, rng, symbol_partition,
                renormalized, start, sessionCreated, loopVars, files_read,
                rows, prefix, prefixLog, listed, nGet, nFail, nParquet, keysLeft>>

\* lines 108-109
AssembleNoData ==
    /\ pc = "assemble"
    /\ NoTables(rows)
    /\ outcome' = "NoDataFound"
    /\ pc' = "done"
    /\ lastReq' = "none"
    /\ storeReply' = "none"
    /\ lastKey' = NoString
    /\ UNCHANGED result
    /\ AssembleFrame

\* lines 111-121: concatenate, filter on the first candidate column when
\* there is one, return the records
AssembleResult ==
    /\ pc = "assemble"
    /\ ~NoTables(rows)
    /\ LET big == Concat(rows)
           ci == CandIndex(big.cols)
           data == IF ci = 0 THEN big.rws
                   ELSE FilterRows(big, TsCandidates[ci], start, now)
       IN  result' = [symbol |-> sym, symbol_partition |-> symbol_partition,
                      timeframe |-> timeframe, range |-> rng,
                      rows_returned |-> Len(data), data |-> data]
    /\ outcome' = "ok"
    /\ pc' = "done"
    /\ lastReq' = "none"
    /\ storeReply' = "none"
    /\ lastKey' = NoString
    /\ AssembleFrame

\* line 116: the column is timezone-aware (utc=True) and the bounds
\* pd.to_datetime(start), pd.to_datetime(now) are naive; pandas versions
\* that check timezone awareness in ordering comparisons raise TypeError
\* here, older ones compare.  Both outcomes are kept.
AssembleTzError ==
    /\ pc = "assemble"
    /\ ~NoTables(rows)
    /\ CandIndex(Concat(rows).cols) # 0
    /\ outcome' = "TypeError"
    /\ pc' = "done"
    /\ lastReq' = "none"
    /\ storeReply' = "none"
    /\ lastKey' = NoString
    /\ UNCHANGED result
    /\ AssembleFrame

-----------------------------------------------------------------------------
(* The range query: requests, steps, specification *)

SeqsUpTo(S, n) == UNION {[1..k -> S] : k \in 0..n}

SymTok == <<"c">>
TfTok == <<"5", "m">>
MainExchange == <<"N", "S", "E">>

\* range tokens of the full query model: a valid one spanning two days, one
\* spanning no day, and one of each way the resolution fails
MainRangeTokens ==
    { <<"1","d">>, <<"-","1","d">>, <<>>, <<"a","b","c","d">>, <<"5","x">>,
      <<"9","9","9","9","y">> }

MainParams ==
    {Join3(SymTok, TfTok, r) : r \in MainRangeTokens}
        \cup {SymTok \o <<",">> \o TfTok,
              Join3(SymTok, TfTok, <<"1","d">>) \o <<",">> \o <<"x">>}

MaxFilesChoices == {0, 1, 2, 4}

NowChoices == {NowDay * TicksPerDay + k : k \in 0..(TicksPerDay - 1)}

\* the state of a request before line 43, given its inputs
Fresh(p, e, mf, t, s0) ==
    /\ pc = "request"
    /\ params = p
    /\ keyArg = NoString
    /\ exchange = e
    /\ max_files = mf
    /\ now = t
    /\ sym = s0
    /\ timeframe = NoString
    /\ rng = NoString
    /\ symbol_partition = NoString
    /\ renormalized = NoString
    /\ start = NoInstant
    /\ sessionCreated = FALSE
    /\ dayIdx = 0
    /\ variant = 1
    /\ pageIdx = 0
    /\ pageLeft = 0
    /\ hasMore = FALSE
    /\ files_read = 0
    /\ rows = <<>>
    /\ lastReq = "none"
    /\ storeReply = "none"
    /\ lastKey = NoString
    /\ prefix = NoString
    /\ prefixLog = <<>>
    /\ listed = FALSE
    /\ nGet = 0
    /\ nFail = 0
    /\ nParquet = 0
    /\ keysLeft = MaxKeys
    /\ outcome = "none"
    /\ result = NoResult

Init ==
    \E p \in MainParams, mf \in MaxFilesChoices :
        Fresh(p, MainExchange, mf, NowDay * TicksPerDay, NoString)

Next ==
    \/ ParseParams
    \/ OpenSession
    \/ ListPage
    \/ ListPageFails
    \/ LoopEnd
    \/ SkipNonParquet
    \/ BudgetBreak
    \/ FetchDecoded
    \/ FetchCorrupt
    \/ FetchFails
    \/ PageEnd
    \/ AssembleNoData
    \/ AssembleResult
    \/ AssembleTzError

Spec == Init /\ [][Next]_vars

\* The handler runs on one thread from its first line to its return: as
\* long as a step is possible one is taken.
InitLive ==
    /\ \E p \in MainParams : params = p
    /\ \E mf \in MaxFilesChoices : max_files = mf
    /\ keysLeft = MaxLiveKeys
    /\ pc = "request"
    /\ keyArg = NoString
    /\ exchange = MainExchange
    /\ now = NowDay * TicksPerDay
    /\ sym = NoString
    /\ timeframe = NoString
    /\ rng = NoString
    /\ symbol_partition = NoString
    /\ renormalized = NoString
    /\ start = NoInstant
    /\ sessionCreated = FALSE
    /\ dayIdx = 0
    /\ variant = 1
    /\ pageIdx = 0
    /\ pageLeft = 0
    /\ hasMore = FALSE
    /\ files_read = 0
    /\ rows = <<>>
    /\ lastReq = "none"
    /\ storeReply = "none"
    /\ lastKey = NoString
    /\ prefix = NoString
    /\ prefixLog = <<>>
    /\ listed = FALSE
    /\ nGet = 0
    /\ nFail = 0
    /\ nParquet = 0
    /\ outcome = "none"
    /\ result = NoResult

SpecLive == InitLive /\ [][Next]_vars /\ WF_vars(Next)

-----------------------------------------------------------------------------
(* Range resolution alone, over every short range token *)

PrefixChars == {"0", "1", "9", "-", "_", " ", "a"}
LastChars == {"d", "m", "y", "D", "x", "1"}

WideRangeTokens ==
    {<<>>} \cup {p \o <<u>> : p \in SeqsUpTo(PrefixChars, MaxPrefixLen), u \in LastChars}

InitRange ==
    \E r \in WideRangeTokens, t \in NowChoices :
        Fresh(Join3(SymTok, TfTok, r), MainExchange, 1, t, NoString)

SpecRange == InitRange /\ [][ParseParams]_vars

-----------------------------------------------------------------------------
(* Symbol normalisation alone, over every short symbol *)

SymChars == {"n", "N", "_", "-", "E", "Q", " "}
ExchangeChoices == {<<"N">>, <<"n">>, <<"N", "E">>}

InitNorm ==
    \E s \in SeqsUpTo(SymChars, MaxSymLen), e \in ExchangeChoices :
        Fresh(<<>>, e, 1, NowDay * TicksPerDay, s)

Normalize ==
    /\ pc = "request"
    /\ symbol_partition' = normalize_symbol_for_bucket(sym, exchange)
    /\ pc' = "normalized"
    /\ UNCHANGED <<inputVars, sym, timeframe, rng, renormalized, start,
                   sessionCreated, loopVars, files_read, rows, storeVars,
                   outcome, result>>

Renormalize ==
    /\ pc = "normalized"
    /\ renormalized' = normalize_symbol_for_bucket(symbol_partition, exchange)
    /\ pc' = "renormalized"
    /\ UNCHANGED <<inputVars, sym, timeframe, rng, symbol_partition, start,
                   sessionCreated, loopVars, files_read, rows, storeVars,
                   outcome, result>>

NextNorm == Normalize \/ Renormalize

SpecNorm == InitNorm /\ [][NextNorm]_vars

-----------------------------------------------------------------------------
(* get_by_key, lines 123-142: one object fetched by its exact key *)

\* tables with up to n rows over a few column sets, a cell being a timestamp
\* just outside or at either end of [s, t], an unparsable text or absent
RichCells(s, t) == {TsCell(s - 1), TsCell(s), TsCell(t), TsCell(t + 1), TextCell, Absent}
RichColumns == {{"timestamp"}, {"ts", "date"}, {"close"}, {"date", "close"}}
RichTables(s, t, n) ==
    UNION {[cols : {cs}, rws : SeqsUpTo([cs -> RichCells(s, t)], n)] : cs \in RichColumns}

KeyTables == RichTables((NowDay - 1) * TicksPerDay, NowDay * TicksPerDay, MaxTableRows)

\* lines 127-130: session and client
KeyOpenSession ==
    /\ pc = "key_request"
    /\ sessionCreated' = TRUE
    /\ pc' = "key_get"
    /\ UNCHANGED <<inputVars, sym, timeframe, rng, symbol_partition,
                   renormalized, start, loopVars, files_read, rows, storeVars,
                   outcome, result>>

\* what the steps after the get_object request of line 132 leave alone
KeyGetFrame ==
    /\ lastReq' = "get"
    /\ lastKey' = keyArg
    /\ nGet' = nGet + 1
    /\ pc' = "done"
    /\ UNCHANGED <<inputVars, sym, timeframe, rng, symbol_partition,
                   renormalized, start, sessionCreated, loopVars, files_read,
                   prefix, prefixLog, listed, nParquet, keysLeft>>

\* a missing key answered with an empty result
KeyNotFoundRecovered ==
    /\ pc = "key_get"
    /\ storeReply' = "NoSuchKey"
    /\ outcome' = "ok"
    /\ result' = [key |-> keyArg, rows |-> 0, data |-> <<>>]
    /\ UNCHANGED <<rows, nFail>>
    /\ KeyGetFrame

\* lines 131-134: the store answers NoSuchKey, the handler raises 404
KeyNotFound ==
    /\ pc = "key_get"
    /\ storeReply' = "NoSuchKey"
    /\ outcome' = "ObjectNotFound"
    /\ UNCHANGED <<rows, nFail, result>>
    /\ KeyGetFrame

\* lines 132, 135: get_object fails otherwise, or the read of the body
\* fails; nothing catches it
KeyGetFails ==
    /\ pc = "key_get"
    /\ storeReply' = "error"
    /\ outcome' = "StoreError"
    /\ UNCHANGED <<rows, nFail, result>>
    /\ KeyGetFrame

\* line 136: read_parquet_bytes raises; the call is in no try block
KeyDecodeFails ==
    /\ pc = "key_get"
    /\ storeReply' = "ok"
    /\ nFail' = nFail + 1
    /\ outcome' = "DecodeError"
    /\ UNCHANGED <<rows, result>>
    /\ KeyGetFrame

\* lines 138-141: the first candidate column, when there is one, is parsed
\* (what does not parse becomes NaT) and made timezone-naive, which keeps
\* the instant
ConvertFirstCandidate(df) ==
    LET ci == CandIndex(df.cols)
    IN  IF ci = 0 THEN df.rws
        ELSE [i \in 1..Len(df.rws) |->
                 [df.rws[i] EXCEPT ![TsCandidates[ci]] = ToDatetime(@)]]

\* lines 132-142: the object is fetched, decodes, and is returned
KeyDecoded ==
    /\ pc = "key_get"
    /\ storeReply' = "ok"
    /\ \E df \in KeyTables :
         /\ rows' = <<df>>
         /\ result' = [key |-> keyArg, rows |-> Len(df.rws),
                       data |-> ConvertFirstCandidate(df)]
    /\ outcome' = "ok"
    /\ UNCHANGED nFail
    /\ KeyGetFrame

InitKey ==
    /\ \E k \in KeyChoices : keyArg = k
    /\ pc = "key_request"
    /\ params = <<>>
    /\ exchange = NoString
    /\ max_files = 0
    /\ now = NowDay * TicksPerDay
    /\ sym = NoString
    /\ timeframe = NoString
    /\ rng = NoString
    /\ symbol_partition = NoString
    /\ renormalized = NoString
    /\ start = NoInstant
    /\ sessionCreated = FALSE
    /\ dayIdx = 0
    /\ variant = 1
    /\ pageIdx = 0
    /\ pageLeft = 0
    /\ hasMore = FALSE
    /\ files_read = 0
    /\ rows = <<>>
    /\ lastReq = "none"
    /\ storeReply = "none"
    /\ lastKey = NoString
    /\ prefix = NoString
    /\ prefixLog = <<>>
    /\ listed = FALSE
    /\ nGet = 0
    /\ nFail = 0
    /\ nParquet = 0
    /\ keysLeft = MaxKeys
    /\ outcome = "none"
    /\ result = NoResult

NextKey ==
    \/ KeyOpenSession
    \/ KeyNotFound
    \/ KeyGetFails
    \/ KeyDecodeFails
    \/ KeyDecoded

SpecKey == InitKey /\ [][NextKey]_vars

-----------------------------------------------------------------------------
(* The prefixes of one day alone, over days, timeframes and symbols *)

\* days around the turns of years and centuries, leap days, the first and
\* the last day of the calendar
EdgeDays == {0, 364876, 693653, 693654, 730178, 730484, 738944, 739250, MaxDayIdx}
PrefixDays == {NowDay - k : k \in 0..MaxDaysBack} \cup EdgeDays

PrefixTimeframes == {TfTok, <<"=">>}
PrefixSymbols == {<<"N","S","E","_","C","-","E","Q">>, <<"{","Y","}">>}

InitPrefix ==
    /\ \E day \in PrefixDays : start = day * TicksPerDay
    /\ \E tf \in PrefixTimeframes : timeframe = tf
    /\ \E sy \in PrefixSymbols : symbol_partition = sy
    /\ pc = "format"
    /\ params = <<>>
    /\ keyArg = NoString
    /\ exchange = MainExchange
    /\ max_files = 1
    /\ now = start
    /\ sym = NoString
    /\ rng = NoString
    /\ renormalized = NoString
    /\ sessionCreated = TRUE
    /\ dayIdx = 0
    /\ variant = 1
    /\ pageIdx = 0
    /\ pageLeft = 0
    /\ hasMore = FALSE
    /\ files_read = 0
    /\ rows = <<>>
    /\ lastReq = "none"
    /\ storeReply = "none"
    /\ lastKey = NoString
    /\ prefix = NoString
    /\ prefixLog = <<>>
    /\ listed = FALSE
    /\ nGet = 0
    /\ nFail = 0
    /\ nParquet = 0
    /\ keysLeft = MaxKeys
    /\ outcome = "none"
    /\ result = NoResult

\* lines 82-83 for one day: each template in turn is formatted
FormatNext ==
    /\ pc = "format"
    /\ prefix' = FormatPrefix(variant, timeframe, exchange, symbol_partition,
                              DateAt(start, dayIdx))
    /\ prefixLog' = LogListing(prefixLog, start, dayIdx, variant, 0)
    /\ IF variant < Len(prefixes_to_try_template)
       THEN variant' = variant + 1 /\ pc' = pc
       ELSE variant' = variant /\ pc' = "formatted"
    /\ UNCHANGED <<inputVars, sym, timeframe, rng, symbol_partition,
                   renormalized, start, sessionCreated, dayIdx, pageIdx,
                   pageLeft, hasMore, files_read, rows, lastReq, storeReply, lastKey,
                   listed, nGet, nFail, nParquet, keysLeft, outcome, result>>

SpecPrefix == InitPrefix /\ [][FormatNext]_vars

-----------------------------------------------------------------------------
(* Assembly alone, over short lists of decoded tables *)

InitAssemble ==
    /\ start = (NowDay - 1) * TicksPerDay
    /\ now = NowDay * TicksPerDay
    /\ \E tables \in SeqsUpTo(RichTables(start, now, MaxTableRows), MaxTables) :
         /\ rows = tables
         /\ files_read = Len(tables)
         /\ nGet = Len(tables)
         /\ nParquet = Len(tables)
    /\ pc = "assemble"
    /\ params = Join3(SymTok, TfTok, <<"1", "d">>)
    /\ keyArg = NoString
    /\ exchange = MainExchange
    /\ max_files = MaxTables
    /\ sym = SymTok
    /\ timeframe = TfTok
    /\ rng = <<"1", "d">>
    /\ symbol_partition = normalize_symbol_for_bucket(SymTok, MainExchange)
    /\ renormalized = NoString
    /\ sessionCreated = TRUE
    /\ dayIdx = 0
    /\ variant = 1
    /\ pageIdx = 0
    /\ pageLeft = 0
    /\ hasMore = FALSE
    /\ lastReq = "none"
    /\ storeReply = "none"
    /\ lastKey = NoString
    /\ prefix = NoString
    /\ prefixLog = <<>>
    /\ listed = TRUE
    /\ nFail = 0
    /\ keysLeft = 0
    /\ outcome = "none"
    /\ result = NoResult

NextAssemble ==
    \/ AssembleNoData
    \/ AssembleResult
    \/ AssembleTzError

SpecAssemble == InitAssemble /\ [][NextAssemble]_vars

-----------------------------------------------------------------------------
(* Properties of the range query, checked under Spec *)

BudgetReached == max_files > 0 /\ files_read >= max_files
Assembled == pc = "done" /\ outcome \in {"ok", "NoDataFound", "TypeError"}

\* C1: with max_files = N > 0 the counter of successful fetches and the
\* number of tables handed to assembly never exceed N, in any state.
C1_BudgetNeverExceeded ==
    max_files > 0 => (files_read <= max_files /\ Len(rows) <= max_files)

\* the budget was filled on a later day although the listings held more
\* decodable .parquet objects than the budget
C1_Witness ==
    /\ outcome = "ok"
    /\ max_files > 0
    /\ files_read = max_files
    /\ nParquet - nFail > max_files
    /\ dayIdx >= 1

\* C2: a step in which a fetched object fails to decode leaves files_read
\* and rows as they were, keeps the query running and moves on to the next
\* object of the page; the rest of a page is abandoned only when the budget
\* is used up or the store fails; so the tables accumulated are those of
\* every fetched object that decoded.
C2_DecodeFailureSkipped ==
    [][ /\ (nFail' # nFail) =>
              /\ files_read' = files_read
              /\ rows' = rows
              /\ outcome' = "none"
              /\ pc' = "scan"
              /\ pageLeft' = pageLeft - 1
              /\ UNCHANGED <<dayIdx, variant, pageIdx, hasMore>>
        /\ (pc = "scan" /\ pageLeft > 0 /\ ~(pc' = "scan" /\ pageLeft' = pageLeft - 1))
              => (files_read >= max_files \/ outcome' = "StoreError")
        /\ (outcome' # "StoreError")
              => (files_read' = Len(rows') /\ Len(rows') = nGet' - nFail')
      ]_vars

\* one listing page with one corrupt and four valid files: the response
\* holds the rows of the four valid files
C2_Witness ==
    /\ outcome = "ok"
    /\ nGet = 5
    /\ nFail = 1
    /\ files_read = 4
    /\ dayIdx = 0 /\ variant = 1 /\ pageIdx = 0
    /\ result.rows_returned = 4

\* C3: once files_read has reached max_files (> 0), no step makes a store
\* request and none goes back to listing: the loops are left for assembly.
C3_NoRequestAfterBudget ==
    [][ BudgetReached => (lastReq' = "none" /\ pc' # "list") ]_vars

\* the loops were left on the budget while the listing had a further page,
\* the second prefix and a later day were still to come
C3_Witness ==
    /\ pc = "assemble"
    /\ BudgetReached
    /\ hasMore
    /\ variant = 1
    /\ dayIdx + 1 < DateCount(start, now)
    /\ keysLeft > 0

\* C4: a query that reaches assembly with no successfully decoded object
\* fails with NoDataFound and returns no result.
C4_NoTablesNotFound ==
    (Assembled /\ files_read = 0) => (outcome = "NoDataFound" /\ result = NoResult)

\* every probed day was listed, objects were fetched, all failed to decode
C4_Witness ==
    /\ outcome = "NoDataFound"
    /\ nFail >= 2
    /\ nGet = nFail
    /\ dayIdx = DateCount(start, now)

\* whether row j of decoded table i is kept by lines 113-117
Survives(i, j) ==
    LET ci == CandIndex(UNION {rows[k].cols : k \in 1..Len(rows)})
        r == rows[i].rws[j]
    IN  \/ ci = 0
        \/ /\ TsCandidates[ci] \in DOMAIN r
           /\ r[TsCandidates[ci]].k = "ts"
           /\ start <= r[TsCandidates[ci]].v
           /\ r[TsCandidates[ci]].v <= now

\* C5 as stated: every success response has rows_returned > 0 and data
\* that is not empty.
C5_SuccessNeverEmpty ==
    outcome = "ok" => (result.rows_returned > 0 /\ result.data # <<>>)

\* C5 amended: a success response is built from at least one decoded table,
\* rows_returned is the length of data, and it is 0 exactly when no row of
\* the decoded tables is kept (the tables are empty, or a timestamp column
\* is present and no row has a timestamp in [start, now]).
C5_SuccessHasTables ==
    outcome = "ok" =>
        /\ files_read >= 1
        /\ rows # <<>>
        /\ result.rows_returned = Len(result.data)
        /\ (result.rows_returned = 0) <=>
              (\A i \in 1..Len(rows) : \A j \in 1..Len(rows[i].rws) : ~Survives(i, j))

\* a success response with no row
C5_Witness ==
    /\ outcome = "ok"
    /\ files_read >= 1
    /\ result.rows_returned = 0

\* C6: a request that ends in a bad-request error has opened no session and
\* made no list or get request.
C6_BadRequestBeforeStore ==
    outcome \in BadRequest =>
        (~sessionCreated /\ ~listed /\ nGet = 0 /\ lastReq = "none")

\* the range token abcd was refused
C6_Witness ==
    /\ outcome = "MalformedRange"
    /\ rng = <<"a", "b", "c", "d">>
    /\ pc = "done"

-----------------------------------------------------------------------------
(* Properties of the range resolution, checked under SpecRange *)

\* the token's characters before the last one
RangePrefix(r) == SubSeq(r, 1, Len(r) - 1)

\* a non-negative integer written in digits
IsNonNegIntText(s) == Len(s) > 0 /\ \A i \in 1..Len(s) : IsDigit(s[i])

RangeParsed == pc # "request" /\ outcome # "MalformedQuery"

\* C7: every range token whose prefix is not a non-negative integer in
\* digits (the empty token included) fails with MalformedRange and is not
\* resolved.
C7_InvalidPrefixMalformed ==
    (RangeParsed /\ ~IsNonNegIntText(RangePrefix(rng)))
        => (outcome = "MalformedRange" /\ start = NoInstant)

\* C8: a token whose last character is not d, m or y in either case fails
\* with UnknownRangeUnit when its prefix is a non-negative integer, and with
\* MalformedRange when it is not.
C8_UnknownUnit ==
    (RangeParsed /\ Len(rng) > 0 /\ LowerChar(rng[Len(rng)]) \notin {"d", "m", "y"})
        => outcome = (IF IsNonNegIntText(RangePrefix(rng))
                      THEN "UnknownRangeUnit" ELSE "MalformedRange")

\* days per unit, as the claim gives them
ClaimedUnitDays(u) == CASE u = "d" -> 1 [] u = "m" -> 30 [] u = "y" -> 365

\* C9: every token <n><unit> with n in digits and unit d, m or y resolves,
\* with start = now - n * unitDays <= now, and the days probed are the
\* consecutive days from start.date() to now.date(), in ascending order.
C9_RangeResolved ==
    (/\ RangeParsed
     /\ Len(rng) > 0
     /\ IsNonNegIntText(RangePrefix(rng))
     /\ LowerChar(rng[Len(rng)]) \in {"d", "m", "y"})
    => LET n == DigitsValue(RangePrefix(rng))
           len == DateCount(start, now)
       IN  /\ outcome = "none"
           /\ start = now - n * ClaimedUnitDays(LowerChar(rng[Len(rng)])) * TicksPerDay
           /\ start <= now
           /\ len = Date(now) - Date(start) + 1
           /\ DateAt(start, 0) = Date(start)
           /\ DateAt(start, len - 1) = Date(now)
           /\ \A i \in 0..(len - 2) : DateAt(start, i + 1) = DateAt(start, i) + 1

-----------------------------------------------------------------------------
(* Properties of the symbol normalisation, checked under SpecNorm *)

\* C10: normalising a normalised symbol again, with the same exchange,
\* changes nothing.
C10_Idempotent ==
    pc = "renormalized" => renormalized = symbol_partition

\* the normalized symbol as the claim describes it: trimmed and upper-cased,
\* the suffix added unless present, the prefix added unless present
EqSuffix == <<"-", "E", "Q">>
ClaimedNormalized(s0, e) ==
    LET s == Upper(Strip(s0))
        suffixed == IF EndsWith(s, EqSuffix) THEN s ELSE s \o EqSuffix
    IN  IF StartsWith(suffixed, e \o <<"_">>) THEN suffixed ELSE e \o <<"_">> \o suffixed

\* C11: the normalized symbol is the trimmed, upper-cased symbol with the
\* prefix e_ added unless it has it and the suffix -EQ added unless it has
\* it; so it starts with e_ and ends with -EQ.
C11_PrefixedAndSuffixed ==
    pc = "normalized" =>
        /\ symbol_partition = ClaimedNormalized(sym, exchange)
        /\ StartsWith(symbol_partition, exchange \o <<"_">>)
        /\ EndsWith(symbol_partition, EqSuffix)

-----------------------------------------------------------------------------
(* Properties of the direct key fetch, checked under SpecKey *)

\* C12: an object that fails to decode never ends the request in a failure,
\* in the direct key fetch as in the range query: the request goes on or
\* succeeds.
C12_DecodeFailureNeverSurfaces ==
    nFail > 0 => outcome \in {"none", "ok"}

\* C14: when the store reports the key as missing the request ends with
\* ObjectNotFound, nothing was decoded or recovered and no result is
\* returned; and that is the only way the fetch ends with ObjectNotFound.
C14_MissingKeyNotFound ==
    /\ (storeReply = "NoSuchKey") =>
          /\ outcome = "ObjectNotFound"
          /\ pc = "done"
          /\ rows = <<>>
          /\ nFail = 0
          /\ result = NoResult
    /\ (outcome = "ObjectNotFound") => (storeReply = "NoSuchKey" /\ nGet = 1)

\* the fetch of a.parquet ended with ObjectNotFound
C14_Witness ==
    /\ storeReply = "NoSuchKey"
    /\ pc = "done"
    /\ keyArg = <<"a", ".", "p", "a", "r", "q", "u", "e", "t">>
    /\ lastKey = keyArg

-----------------------------------------------------------------------------
(* Properties of the prefixes, checked under SpecPrefix *)

\* the calendar the other way round: the index of the day y-m-d
IsLeapYear(y) == y % 4 = 0 /\ (y % 100 # 0 \/ y % 400 = 0)
DaysInMonth(y, m) ==
    IF m = 2 THEN (IF IsLeapYear(y) THEN 29 ELSE 28)
    ELSE IF m \in {4, 6, 9, 11} THEN 30 ELSE 31
RECURSIVE DaysBeforeInYear(_, _)
DaysBeforeInYear(y, m) ==
    IF m = 1 THEN 0 ELSE DaysBeforeInYear(y, m - 1) + DaysInMonth(y, m - 1)
DayIndexOf(y, m, d) ==
    365 * (y - 1) + ((y - 1) \div 4) - ((y - 1) \div 100) + ((y - 1) \div 400)
        + DaysBeforeInYear(y, m) + d - 1

\* the year, month and day whose day index is n
CalendarDay(n) ==
    LET y == CHOOSE c \in ((n \div 366) + 1)..((n \div 365) + 1) :
                 DayIndexOf(c, 1, 1) <= n /\ n <= DayIndexOf(c, 12, 31)
        m == CHOOSE c \in 1..12 :
                 DayIndexOf(y, c, 1) <= n /\ n <= DayIndexOf(y, c, DaysInMonth(y, c))
    IN  [year |-> y, month |-> m, day |-> n - DayIndexOf(y, m, 1) + 1]

TwoDigits(n) == <<Digits[(n \div 10) + 1], Digits[(n % 10) + 1]>>

\* the prefix as the claim writes it, with the given separator
ClaimedPrefix(sep, tf, ex, sy, n) ==
    LET c == CalendarDay(n)
    IN  <<"p","r","o","c","e","s","s","e","d","/">>
        \o <<"t","i","m","e","f","r","a","m","e">> \o sep \o tf \o <<"/">>
        \o <<"e","x","c","h","a","n","g","e">> \o sep \o ex \o <<"/">>
        \o <<"s","y","m","b","o","l">> \o sep \o sy \o <<"/">>
        \o <<"y","e","a","r">> \o sep \o IntStr(c.year) \o <<"/">>
        \o <<"m","o","n","t","h">> \o sep \o TwoDigits(c.month) \o <<"/">>
        \o <<"d","a","y">> \o sep \o TwoDigits(c.day) \o <<"/">>

ClaimedSeparators == << <<"=">>, <<"%","3","D">> >>

\* C13: for a timeframe, an exchange, a normalized symbol and a day, two
\* prefixes are produced, the first the path
\* processed/timeframe=../exchange=../symbol=../year=Y/month=MM/day=DD/ with
\* two-digit month and day, the second the same text with %3D in place of
\* each of the six separators and nothing else changed.
C13_TwoPrefixes ==
    /\ \A i \in 1..Len(prefixLog) : prefixLog[i].variant = i
    /\ Len(prefixLog) <= 2
    /\ (pc = "formatted") => (Len(prefixLog) = 2)
    /\ (prefixLog # <<>>) =>
          prefix = ClaimedPrefix(ClaimedSeparators[Len(prefixLog)], timeframe,
                                 exchange, symbol_partition, Date(start))

\* both prefixes of 2026-01-09 were built, for a timeframe text that holds
\* a = of its own
C13_Witness ==
    /\ pc = "formatted"
    /\ Len(prefixLog) = 2
    /\ timeframe = <<"=">>
    /\ YearMonthDay(Date(start)) = [year |-> 2026, month |-> 1, day |-> 9]
    /\ EndsWith(prefix, <<"/","m","o","n","t","h","%","3","D","0","1","/","d","a","y","%","3","D","0","9","/">>)

-----------------------------------------------------------------------------
(* Properties of the order of the listings, checked under Spec *)

\* C15: the listings are started in the order day 0 unencoded, day 0
\* encoded, day 1 unencoded, ..., each once and none left out, whatever the
\* earlier listings held; the prefix requested is the unencoded text for the
\* first variant and the %3D text for the second; and when the loops are
\* left for assembly with a listing not started, the file budget is used up.
C15_VariantOrder ==
    /\ \A i \in 1..Len(prefixLog) :
          /\ prefixLog[i].date = Date(start) + ((i - 1) \div 2)
          /\ prefixLog[i].variant = ((i - 1) % 2) + 1
    /\ (lastReq = "list") =>
          /\ prefixLog # <<>>
          /\ prefix = ClaimedPrefix(ClaimedSeparators[prefixLog[Len(prefixLog)].variant],
                                    timeframe, exchange, symbol_partition,
                                    prefixLog[Len(prefixLog)].date)
    /\ (pc = "assemble" \/ Assembled) =>
          (Len(prefixLog) = 2 * DateCount(start, now) \/ files_read >= max_files)

\* the encoded prefix of the first day is being listed although the
\* unencoded one yielded a file, the budget not being used up
C15_Witness ==
    /\ lastReq = "list"
    /\ Len(prefixLog) = 2
    /\ prefixLog[1].done
    /\ files_read = 1
    /\ files_read < max_files
    /\ dayIdx = 0
    /\ variant = 2

-----------------------------------------------------------------------------
(* Properties of store failures in the range query, checked under Spec *)

\* C17: when a listing page request or an object fetch fails in the store,
\* the query has ended with that failure and without a result, the tables
\* read so far included; and no step follows: no retry, no further list or
\* get request.
C17_StoreFailurePropagates ==
    /\ [](storeReply = "error" =>
             (pc = "done" /\ outcome = "StoreError" /\ result = NoResult))
    /\ [][storeReply # "error"]_vars

\* an object fetch failed after two files had been read
C17_Witness ==
    /\ storeReply = "error"
    /\ lastReq = "get"
    /\ files_read = 2
    /\ Len(rows) = 2
    /\ keysLeft > 0

-----------------------------------------------------------------------------
(* Properties of the counters of the range query, checked under Spec *)

\* the last key fetched ends in .parquet, whatever its case
FetchedKeyIsParquet ==
    /\ (lastReq = "get") =>
          /\ Len(lastKey) >= 8
          /\ Lower(SubSeq(lastKey, Len(lastKey) - 7, Len(lastKey)))
                 = <<".", "p", "a", "r", "q", "u", "e", "t">>
    /\ (lastReq # "get") => (lastKey = NoString)

\* C19 as stated: in every state files_read is the number of tables in
\* rows, the get_object requests issued are files_read plus the decode
\* failures, so they exceed max_files by no more than the decode failures,
\* and every key fetched ends in .parquet.
C19_CountersAgreeAlways ==
    /\ files_read = Len(rows)
    /\ nGet = files_read + nFail
    /\ (max_files > 0) => (nGet <= max_files + nFail)
    /\ FetchedKeyIsParquet

\* C19 amended: the same, except that the get_object requests issued are
\* one more than files_read plus the decode failures in the final state of
\* a query that a failed fetch has aborted.
C19_CountersAgree ==
    /\ files_read = Len(rows)
    /\ nGet = files_read + nFail
               + (IF lastReq = "get" /\ storeReply = "error" THEN 1 ELSE 0)
    /\ (max_files > 0) => (nGet <= max_files + nFail)
    /\ FetchedKeyIsParquet

\* the budget of two was filled by a key in upper case after two objects
\* had failed to decode: four fetches for two files
C19_Witness ==
    /\ lastReq = "get"
    /\ lastKey = <<"a", ".", "P", "A", "R", "Q", "U", "E", "T">>
    /\ max_files = 2
    /\ files_read = 2
    /\ nFail = 2
    /\ nGet = 4

-----------------------------------------------------------------------------
(* Properties of the order of the days, checked under Spec *)

\* C20: the listings go through the days in ascending order from
\* start.date(); whenever an object is fetched, every listing before the
\* current one, so both listings of every earlier day, has been run to
\* its end; and once the counter has reached max_files (> 0) no fetch
\* follows, whatever days up to now.date() remain.
C20_DaysAscending ==
    /\ [](/\ (prefixLog # <<>>) => (prefixLog[1].date = Date(start))
          /\ \A i \in 1..(Len(prefixLog) - 1) :
                /\ prefixLog[i + 1].date \in {prefixLog[i].date, prefixLog[i].date + 1}
                /\ prefixLog[i + 1].date <= Date(now)
          /\ (pc = "scan") => (prefixLog[Len(prefixLog)].date = DateAt(start, dayIdx)))
    /\ [][ (nGet' # nGet) =>
              /\ Len(prefixLog) = 2 * dayIdx + variant
              /\ \A i \in 1..(Len(prefixLog) - 1) : prefixLog[i].done
              /\ \A j \in 0..(dayIdx - 1) : \A v \in 1..2 :
                    \E i \in 1..Len(prefixLog) :
                        /\ prefixLog[i].date = Date(start) + j
                        /\ prefixLog[i].variant = v
                        /\ prefixLog[i].done
              /\ ~BudgetReached ]_vars

\* the budget was filled on the first of two days: the day of the request
\* itself, the later one, was never listed
C20_Witness ==
    /\ pc = "done"
    /\ outcome = "ok"
    /\ BudgetReached
    /\ DateCount(start, now) = 2
    /\ \A i \in 1..Len(prefixLog) : prefixLog[i].date = Date(start)
    /\ Date(start) < Date(now)

-----------------------------------------------------------------------------
(* Termination of the range query, checked under SpecLive *)

\* the positions of the state machine: Idle, ListingDay, Fetching, the
\* hand-over to assembly, and the terminal state
Idle == pc \in {"request", "session"}
ListingDay == pc = "list"
Fetching == pc = "scan"
Terminal == pc = "done"

\* C18: every range query reaches a terminal state, which carries an
\* outcome (the result or the reason of the failure); no step is taken from
\* a terminal state; before it the query is idle, listing a day or fetching,
\* or handing over to assembly; and no (day, variant) listing is started
\* twice.
C18_Terminates ==
    /\ <>Terminal
    /\ [](Terminal <=> outcome # "none")
    /\ [](Idle \/ ListingDay \/ Fetching \/ pc = "assemble" \/ Terminal)
    /\ [][~Terminal]_vars
    /\ [][ (Len(prefixLog') > Len(prefixLog)) =>
              \A i \in 1..Len(prefixLog) :
                  <<prefixLog[i].date, prefixLog[i].variant>>
                      # <<prefixLog'[Len(prefixLog')].date, prefixLog'[Len(prefixLog')].variant>> ]_vars

\* the query ended after both listings of both days had run to their end
\* and every object the store held had been fetched
C18_Witness ==
    /\ Terminal
    /\ outcome = "ok"
    /\ Len(prefixLog) = 4
    /\ \A i \in 1..4 : prefixLog[i].done
    /\ keysLeft = 0
    /\ nGet = MaxLiveKeys

-----------------------------------------------------------------------------
(* Properties of the assembly, checked under SpecAssemble *)

\* the rows the claim says are returned: all the concatenated rows when no
\* candidate column exists, else those whose value in the first candidate
\* column is a timestamp within [start, now]
ClaimedRows ==
    LET big == Concat(rows)
        present == {i \in 1..Len(TsCandidates) : TsCandidates[i] \in big.cols}
    IN  IF present = {} THEN big.rws
        ELSE LET first == CHOOSE i \in present : \A j \in present : i <= j
                 col == TsCandidates[first]
             IN  SelectSeq(big.rws,
                           LAMBDA r : r[col].k = "ts" /\ start <= r[col].v /\ r[col].v <= now)

\* C16: a query that reaches assembly with at least one table succeeds, and
\* its rows are the concatenated rows filtered on the first candidate
\* column present (all of them when none is present); rows with absent or
\* unparsable values are dropped and never fail the query.
C16_FilterOnFirstCandidate ==
    (pc = "done" /\ rows # <<>>) =>
        /\ outcome = "ok"
        /\ result.data = ClaimedRows
        /\ result.rows_returned = Len(ClaimedRows)

=============================================================================
